---- MODULE Spec2Model ----
(***************************************************************************)
(* A model of the ETL pipeline's synchronization engine: the cursor file   *)
(* (database/offset.json), the SQLite cache (cache_data), the task ledger  *)
(* (database/tasks_log.json), the export snapshot, the single-cycle and    *)
(* full-sync runs of app/services/etl.py, and the periodic job of          *)
(* app/core/scheduler.py.                                                  *)
(*                                                                         *)
(* Conventions.  A reg_no is modelled by a small natural k that stands for *)
(* the one-character string chr(48 + k); the empty string '' is 0, so the  *)
(* order of the naturals is the order of the strings.  A text value is the *)
(* sequence of its UTF-8 bytes.  Of the eleven canonical columns the model *)
(* keeps two, reg_no and buyer, and a ledger record leaves out its         *)
(* start_time and end_time.  File writes and one upsert_rows call are      *)
(* atomic steps; a run is a sequence of such steps and runs interleave     *)
(* freely (FastAPI background tasks run in worker threads).                *)
(*                                                                         *)
(* Several specifications share the variables.  Spec: single-cycle and     *)
(* full-sync runs triggered over HTTP, overlapping freely.  SpecSeq: the   *)
(* same runs triggered one after another, with weak fairness of their      *)
(* steps.  SpecCrash: SpecSeq with a process kill between upsert and       *)
(* cursor save.  SpecUpsert: upsert_rows called repeatedly on one batch.   *)
(* SpecHash: calculate_row_hash called on values and on re-inserted        *)
(* dicts.  SpecLedger: sequential ledger puts and the latest-status        *)
(* request.  SpecSched: the periodic job, the configuration file,          *)
(* POST /api/v1/config and restarts.  SpecRemoval: Spec over a source that *)
(* loses rows.  SpecRaise: SpecSeq with a ledger write that raises.        *)
(* SpecChange: a chunk processed, altered in one field and processed       *)
(* again.  SpecNorm: _process_and_hash_data on rows with and without an    *)
(* unmapped column.  SpecFire: SpecSeq with firings of the periodic job.   *)
(***************************************************************************)
EXTENDS Integers, Sequences, FiniteSets, TLC

VARIABLES
    source,       \* the remote table: a set of source rows, unique Reg_no
    offset_file,  \* database/offset.json: NoFile or the stored last_id
    cache,        \* cache_data: a set of cache records, unique reg_no
    tasks_log,    \* database/tasks_log.json: [kind, tasks]
    export_file,  \* exports/etl_master_export.xlsx: [exists, rows]
    chunk_size,   \* app_config.json: etl.chunk_size
    run,          \* task id -> the run's position and locals
    started,      \* number of task ids generated so far
    faults,       \* number of environment failures met so far
    batch,        \* the rows handed to upsert_rows by a direct caller
    upsert_log,   \* the direct upsert_rows calls made so far
    hash_arg,     \* the value a direct caller hands to calculate_row_hash
    hash_log,     \* the direct calculate_row_hash calls made so far
    response,     \* the last answer of GET /etl-status/latest
    last_inserted,\* the task id most recently added to the ledger as a new key
    last_put,     \* the task id of the most recent ledger put
    config_file,  \* app_config.json
    jobs,         \* the scheduler's job store
    app_up,       \* the application process imported and started
    last_op       \* the last scheduler operation and its argument

pipeline == <<source, offset_file, cache, tasks_log, export_file, chunk_size, run, started, faults>>
hashCalls == <<hash_arg, hash_log>>
upsertCalls == <<batch, upsert_log, hashCalls>>
ledgerClient == <<response, last_inserted, last_put>>
scheduling == <<config_file, jobs, app_up, last_op>>
vars == <<pipeline, upsertCalls, ledgerClient, scheduling>>

----------------------------------------------------------------------------
(* Bounds *)

MaxKey == 3
MaxTasks == 2
MaxFaults == 1

(* Program constants *)

\* RESET_REG_NO, the sentinel start key of a full sync
RESET_REG_NO == 1
\* load_last_id's None (file missing or unreadable)
NoFile == -1
\* '' : the cursor a run uses when load_last_id returned None
EmptyId == 0

Tasks == 1..MaxTasks
ChunkSizes == {1, 2}

----------------------------------------------------------------------------
(* app/services/hashing.py *)

\* str(v) of a reg_no k: the one-character text chr(48 + k)
StrOfKey(k) == <<48 + k>>

\* A 32-bit word is <<high 16 bits, low 16 bits>> (TLC's integers are signed
\* 32-bit).  Bitwise exclusive or of two naturals below 2^w:
RECURSIVE XorBits(_, _, _)
XorBits(a, b, w) ==
    IF w = 0 THEN 0
    ELSE ((a + b) % 2) + 2 * XorBits(a \div 2, b \div 2, w - 1)

Xor32(x, y) == <<XorBits(x[1], y[1], 16), XorBits(x[2], y[2], 16)>>
Shr1(x) == <<x[1] \div 2, (x[2] \div 2) + 32768 * (x[1] % 2)>>
Ones32 == <<65535, 65535>>
\* the reflected CRC-32 polynomial 0xEDB88320
CrcPoly == <<60856, 33568>>

\* one bit: crc = (crc >> 1) ^ poly if crc & 1 else crc >> 1
CrcBit(c) == IF c[2] % 2 = 1 THEN Xor32(Shr1(c), CrcPoly) ELSE Shr1(c)

\* n bits.  The CHOOSE over a singleton binds the register to its value, so
\* that it is computed once (an operator argument is passed unevaluated).
RECURSIVE CrcShift(_, _)
CrcShift(c, n) ==
    IF n = 0 THEN c
    ELSE CHOOSE r \in {CrcShift(CrcBit(x), n - 1) : x \in {c}} : TRUE

RECURSIVE CrcBytes(_, _)
CrcBytes(c, bytes) ==
    IF bytes = <<>> THEN c
    ELSE CHOOSE r \in {CrcBytes(CrcShift(Xor32(x, <<0, Head(bytes)>>), 8), Tail(bytes)) :
                        x \in {c}} : TRUE

\* zlib.crc32 of a byte string, bit by bit
Crc32Of(bytes) == Xor32(CrcBytes(Ones32, bytes), Ones32)

\* a text value and None, as Python values
PyText(bytes) == [t |-> "str", v |-> bytes]
PyNone == [t |-> "none", v |-> <<>>]

\* str(v): a text is itself, None is 'None'
PyStr(x) == IF x.t = "none" THEN <<78, 111, 110, 101>> ELSE x.v

\* str(row[key]): the value of a reg_no column is a key k, printed as chr(48 + k)
StrOfField(row, key) ==
    IF key \in {"Reg_no", "reg_no"} THEN StrOfKey(row[key]) ELSE PyStr(row[key])

\* the column names of the model in Python's string order (upper case first)
ColumnOrder == <<"Buyer", "Extra", "Reg_no", "buyer", "hash_value", "reg_no">>

\* sorted(row.keys())
SortedKeys(row) == SelectSeq(ColumnOrder, LAMBDA c : c \in DOMAIN row)

RECURSIVE JoinStr(_, _)
JoinStr(row, keys) ==
    IF keys = <<>> THEN <<>>
    ELSE StrOfField(row, Head(keys)) \o JoinStr(row, Tail(keys))

\* KEY_MAPPING.get(k, k), for the columns the model keeps
KEY_MAPPING_get(k) ==
    CASE k = "Reg_no" -> "reg_no"
      [] k = "Buyer" -> "buyer"
      [] OTHER -> k

\* {KEY_MAPPING.get(k, k): v for k, v in row.items()}
Remap(row) ==
    [c \in {KEY_MAPPING_get(k) : k \in DOMAIN row} |->
        row[CHOOSE k \in DOMAIN row : KEY_MAPPING_get(k) = c]]

\* the source rows of the model
SourceRow(k, b) == [Reg_no |-> k, Buyer |-> b]
BuyerVals == {PyText(<<97>>), PyText(<<98>>)}

\* the texts the rows of the model are joined to (buyer, then reg_no), with
\* their checksums computed once
TabulatedTexts == {PyStr(b) \o StrOfKey(k) : b \in BuyerVals, k \in 1..MaxKey}
Crc32Table == {<<t, Crc32Of(t)>> : t \in TabulatedTexts}

\* zlib.crc32
crc32(bytes) ==
    IF bytes \in TabulatedTexts
    THEN (CHOOSE p \in Crc32Table : p[1] = bytes)[2]
    ELSE Crc32Of(bytes)

\* calculate_row_hash of a dict
calculate_row_hash(row) == crc32(JoinStr(row, SortedKeys(row)))

----------------------------------------------------------------------------
(* app/services/etl.py: normalisation *)

\* one row of _process_and_hash_data: the remapped row with its hash_value
ProcessRow(row) ==
    LET remapped_row == Remap(row)
    IN [c \in DOMAIN remapped_row \cup {"hash_value"} |->
            IF c = "hash_value" THEN calculate_row_hash(remapped_row)
            ELSE remapped_row[c]]

_process_and_hash_data(data) == [i \in 1..Len(data) |-> ProcessRow(data[i])]

----------------------------------------------------------------------------
(* app/db/sqlite_manager.py *)

\* SELECT hash_value FROM cache_data WHERE reg_no = ?
StoredRows(c, k) == {rec \in c : rec.reg_no = k}

\* INSERT OR REPLACE of the canonical columns of a processed row
InsertOrReplace(c, row) ==
    {rec \in c : rec.reg_no # row["reg_no"]}
        \cup {[reg_no |-> row["reg_no"], buyer |-> row["buyer"],
               hash_value |-> row["hash_value"]]}

\* a comparison that rewrites every row, whatever hash is stored
NeedsWriteRegardless(c, row) == TRUE

\* result is None or result['hash_value'] != row['hash_value']
NeedsWrite(c, row) ==
    \A rec \in StoredRows(c, row["reg_no"]) : rec.hash_value # row["hash_value"]

\* The loop of upsert_rows over rows[i..], inside one transaction: st is
\* [conn, count]; an exception at row failAt leaves the loop at once.
RECURSIVE UpsertLoop(_, _, _, _)
UpsertLoop(st, rows, i, failAt) ==
    IF i > Len(rows) \/ i = failAt THEN st
    ELSE UpsertLoop(
            IF NeedsWrite(st.conn, rows[i])
            THEN [conn |-> InsertOrReplace(st.conn, rows[i]), count |-> st.count + 1]
            ELSE st,
            rows, i + 1, failAt)

\* an upsert_rows that never commits its transaction
upsert_rows_without_commit(c, rows, failAt) ==
    [cache |-> c, ret |-> UpsertLoop([conn |-> c, count |-> 0], rows, 1, failAt).count,
     committed |-> FALSE, written |-> 0]

\* an upsert_rows whose failed transaction is not rolled back
upsert_rows_keeping_partial_writes(c, rows, failAt) ==
    LET st == UpsertLoop([conn |-> c, count |-> 0], rows, 1, failAt)
    IN [cache |-> st.conn, ret |-> st.count, committed |-> failAt = 0,
        written |-> st.count]

\* an upsert_rows that makes the cache a mirror of the batch
upsert_rows_mirroring_batch(c, rows, failAt) ==
    LET st == UpsertLoop([conn |-> {}, count |-> 0], rows, 1, failAt)
    IN [cache |-> IF failAt = 0 THEN st.conn ELSE c, ret |-> st.count,
        committed |-> failAt = 0, written |-> IF failAt = 0 THEN st.count ELSE 0]

\* upsert_rows(rows) on cache c.  failAt = 0: no error; 1..Len(rows): the
\* statement of that row raises; Len(rows) + 1: conn.commit() raises.  An
\* exception skips the commit, the connection is closed and SQLite rolls the
\* transaction back; the except clause logs and updated_count is returned.
\* written is the number of INSERT OR REPLACE statements that were committed.
upsert_rows(c, rows, failAt) ==
    IF rows = <<>> THEN [cache |-> c, ret |-> 0, committed |-> TRUE, written |-> 0]
    ELSE LET st == UpsertLoop([conn |-> c, count |-> 0], rows, 1, failAt)
         IN [cache |-> IF failAt = 0 THEN st.conn ELSE c,
             ret |-> st.count,
             committed |-> failAt = 0,
             written |-> IF failAt = 0 THEN st.count ELSE 0]

----------------------------------------------------------------------------
(* app/db/mssql.py *)

\* load_last_id followed by "if last_id is None: last_id = ''"
LoadLastId(f) == IF f = NoFile THEN EmptyId ELSE f

\* save_last_id: the file after the call; an IOError is logged and swallowed
save_last_id(f, last_id, ok) == IF ok THEN last_id ELSE f

\* the source rows after last_id
RowsAfter(src, last_id) == {row \in src : row["Reg_no"] > last_id}

\* The query of app/query/fetch_chunk.sql run by fetch_data_as_dict: the first
\* n rows after last_id in ascending order of the id column.
RECURSIVE FetchChunk(_, _, _)
FetchChunk(src, last_id, n) ==
    IF n = 0 \/ RowsAfter(src, last_id) = {} THEN <<>>
    ELSE LET first == CHOOSE row \in RowsAfter(src, last_id) :
                        \A other \in RowsAfter(src, last_id) : row["Reg_no"] <= other["Reg_no"]
         IN <<first>> \o FetchChunk(src, first["Reg_no"], n - 1)

----------------------------------------------------------------------------
(* app/services/etl.py: the task ledger *)

NoLedger == [kind |-> "absent", tasks |-> <<>>]

\* what _update_task_in_log reads: log_data['tasks'], {} when the file is
\* missing or does not parse
ReadTasks(f) == IF f.kind = "ok" THEN f.tasks ELSE <<>>

HasTask(tasks, id) == \E i \in 1..Len(tasks) : tasks[i].id = id

\* a put under last-modified order: the updated key moves to the end
PutTaskLastModified(tasks, id, rec) ==
    Append(SelectSeq(tasks, LAMBDA e : e.id # id), [id |-> id, rec |-> rec])

\* log_data['tasks'][task_id] = result: a present key keeps its position, a new
\* key goes last
PutTask(tasks, id, rec) ==
    IF HasTask(tasks, id)
    THEN [i \in 1..Len(tasks) |-> IF tasks[i].id = id THEN [id |-> id, rec |-> rec] ELSE tasks[i]]
    ELSE Append(tasks, [id |-> id, rec |-> rec])

\* the record of a task in the ledger file, NoRecord when it has none
NoRecord == [status |-> "none"]
TaskRecord(f, id) ==
    IF HasTask(ReadTasks(f), id)
    THEN (CHOOSE e \in {ReadTasks(f)[i] : i \in 1..Len(ReadTasks(f))} : e.id = id).rec
    ELSE NoRecord

TerminalStatuses == {"success", "complete", "error"}

----------------------------------------------------------------------------
(* app/services/exporter.py *)

NoExport == [exists |-> FALSE, rows |-> {}]
ExportPath == "exports/etl_master_export.xlsx"

\* an exporter that writes the sheet even when the cache is empty
export_data_to_excel_writing_empty_sheet(c, f, ok) ==
    IF ~ok THEN [file |-> f, ret |-> "None"]
    ELSE [file |-> [exists |-> TRUE, rows |-> c], ret |-> ExportPath]

\* an exporter that returns its path although the export raised
export_data_to_excel_returning_path_on_failure(c, f, ok) ==
    IF c = {} /\ ok THEN [file |-> NoExport, ret |-> "None"]
    ELSE [file |-> IF ok THEN [exists |-> TRUE, rows |-> c] ELSE f, ret |-> ExportPath]

\* export_data_to_excel: [file, ret].  ok = FALSE: reading the cache or
\* writing the workbook raised; the file is left as it was.
export_data_to_excel(c, f, ok) ==
    IF ~ok THEN [file |-> f, ret |-> "None"]
    ELSE IF c = {} THEN [file |-> NoExport, ret |-> "None"]
    ELSE [file |-> [exists |-> TRUE, rows |-> c], ret |-> ExportPath]

----------------------------------------------------------------------------
(* app/services/etl.py: the runs *)

IdleRun ==
    [kind |-> "none", pc |-> "idle", last_id |-> EmptyId, source_data |-> <<>>,
     updated_count |-> 0, committed |-> TRUE,
     total_rows_received |-> 0, total_rows_updated |-> 0,
     log_data |-> <<>>, result |-> NoRecord, after |-> "idle", ended |-> "no"]

\* An environment failure (the source, the cache database, the offset file or
\* the export directory is unavailable) happens at most MaxFaults times.
Fault(happens) ==
    IF happens THEN faults < MaxFaults /\ faults' = faults + 1 ELSE faults' = faults

\* start of _update_task_in_log(task_id, result), then continue at pc after
CallUpdateTask(r, result, after) ==
    [run[r] EXCEPT !.pc = "log_read", !.result = result, !.after = after]

\* uuid4: a fresh task id for a triggered run, which starts as st
Trigger(st) ==
    /\ started < MaxTasks
    /\ started' = started + 1
    /\ run' = [run EXCEPT ![started + 1] = st]
    /\ UNCHANGED <<source, offset_file, cache, tasks_log, export_file, chunk_size, faults, upsertCalls, ledgerClient, scheduling>>

\* POST /api/v1/trigger-etl: run_etl_pipeline as a background task, which
\* begins with _update_task_in_log(running)
TriggerSingle ==
    Trigger([IdleRun EXCEPT !.kind = "single", !.pc = "log_read",
                            !.result = [status |-> "running"], !.after = "fetch"])

\* POST /api/v1/trigger-full-sync: run_full_etl_sync as a background task
TriggerFull == Trigger([IdleRun EXCEPT !.kind = "full", !.pc = "reset"])

\* run_full_etl_sync: save_last_id(RESET_REG_NO), then the running record
ResetOffset(r, ok) ==
    /\ run[r].pc = "reset"
    /\ Fault(~ok)
    /\ offset_file' = save_last_id(offset_file, RESET_REG_NO, ok)
    /\ run' = [run EXCEPT ![r] = CallUpdateTask(r,
                [status |-> "running", message |-> "Full sync started, offset has been reset."],
                "fetch")]
    /\ UNCHANGED <<source, cache, tasks_log, export_file, chunk_size, started, upsertCalls, ledgerClient, scheduling>>

\* _update_task_in_log, first half: read and parse the file
LogRead(r) ==
    /\ run[r].pc = "log_read"
    /\ run' = [run EXCEPT ![r].pc = "log_write", ![r].log_data = ReadTasks(tasks_log)]
    /\ UNCHANGED <<source, offset_file, cache, tasks_log, export_file, chunk_size, started, faults, upsertCalls, ledgerClient, scheduling>>

\* _update_task_in_log, second half: set the task's record and write the file
LogWrite(r) ==
    /\ run[r].pc = "log_write"
    /\ tasks_log' = [kind |-> "ok", tasks |-> PutTask(run[r].log_data, r, run[r].result)]
    /\ run' = [run EXCEPT ![r] =
                IF run[r].after = "done"
                THEN [IdleRun EXCEPT !.kind = run[r].kind, !.pc = "done"]
                ELSE [run[r] EXCEPT !.pc = run[r].after, !.log_data = <<>>,
                                    !.result = NoRecord, !.after = "idle"]]
    /\ UNCHANGED <<source, offset_file, cache, export_file, chunk_size, started, faults, upsertCalls, ledgerClient, scheduling>>

\* The result a run records when its extraction fails.  run_etl_pipeline
\* writes an error record and returns; run_full_etl_sync leaves its loop
\* (break) and goes on to the export and the final record.
AfterHardError(r, why, message) ==
    IF run[r].kind = "single"
    THEN [CallUpdateTask(r, [status |-> "error", message |-> message], "done")
            EXCEPT !.ended = why]
    ELSE [run[r] EXCEPT !.pc = "export", !.ended = why]

\* a loop that polls again on an empty chunk instead of leaving
OnEmptyChunkPollAgain(kind) == IF kind = "single" THEN "save_reset" ELSE "fetch"

\* "if not source_data": run_etl_pipeline resets the offset, run_full_etl_sync
\* leaves its loop (break) for the export
OnEmptyChunk(kind) == IF kind = "single" THEN "save_reset" ELSE "export"

\* One pass of load_last_id, _load_sql_query/format and fetch_data_as_dict.
\* outcome: "query_error" (the template cannot be loaded or formatted),
\* "fetch_error" (fetch_data_as_dict returned None), "rows" (a list).
Fetch(r, outcome) ==
    /\ run[r].pc = "fetch"
    /\ Fault(outcome # "rows")
    /\ LET last_id == LoadLastId(offset_file)
           source_data == FetchChunk(source, last_id, chunk_size)
       IN run' = [run EXCEPT ![r] =
            CASE outcome = "query_error" ->
                    AfterHardError(r, "error", "Failed to load/format SQL query")
              [] outcome = "fetch_error" ->
                    AfterHardError(r, "error", "Failed to fetch data from MSSQL")
              [] outcome = "rows" /\ source_data = <<>> ->
                    [run[r] EXCEPT !.pc = OnEmptyChunk(run[r].kind),
                                   !.ended = "empty", !.last_id = last_id]
              [] OTHER ->
                    [run[r] EXCEPT !.pc = "upsert", !.last_id = last_id,
                                   !.source_data = source_data,
                                   !.total_rows_received = @ + Len(source_data)]]
    /\ UNCHANGED <<source, offset_file, cache, tasks_log, export_file, chunk_size, started, upsertCalls, ledgerClient, scheduling>>

\* processed_data = _process_and_hash_data(source_data);
\* updated_count = sqlite_manager.upsert_rows(processed_data)
Upsert(r, failAt) ==
    /\ run[r].pc = "upsert"
    /\ failAt \in 0..(Len(run[r].source_data) + 1)
    /\ Fault(failAt # 0)
    /\ LET res == upsert_rows(cache, _process_and_hash_data(run[r].source_data), failAt)
       IN /\ cache' = res.cache
          /\ run' = [run EXCEPT ![r].pc = "save",
                                ![r].updated_count = res.ret,
                                ![r].committed = res.committed,
                                ![r].total_rows_updated = @ + res.ret]
    /\ UNCHANGED <<source, offset_file, tasks_log, export_file, chunk_size, started, upsertCalls, ledgerClient, scheduling>>

\* new_last_id = processed_data[-1][ID_COLUMN]
NewLastId(source_data) ==
    _process_and_hash_data(source_data)[Len(source_data)]["reg_no"]

\* save_last_id(new_last_id); run_etl_pipeline then records success,
\* run_full_etl_sync sleeps and starts the next chunk
SaveOffset(r, ok) ==
    /\ run[r].pc = "save"
    /\ Fault(~ok)
    /\ offset_file' = save_last_id(offset_file, NewLastId(run[r].source_data), ok)
    /\ run' = [run EXCEPT ![r] =
        IF run[r].kind = "single"
        THEN [CallUpdateTask(r,
                [status |-> "success",
                 rows_received |-> Len(run[r].source_data),
                 rows_updated_in_cache |-> run[r].updated_count,
                 last_offset_processed |-> NewLastId(run[r].source_data)],
                "done")
              EXCEPT !.source_data = <<>>]
        ELSE [run[r] EXCEPT !.pc = "fetch", !.source_data = <<>>, !.updated_count = 0,
                            !.committed = TRUE, !.last_id = EmptyId]]
    /\ UNCHANGED <<source, cache, tasks_log, export_file, chunk_size, started, upsertCalls, ledgerClient, scheduling>>

\* run_etl_pipeline on an empty chunk: save_last_id(RESET_REG_NO), record complete
SaveReset(r, ok) ==
    /\ run[r].pc = "save_reset"
    /\ Fault(~ok)
    /\ offset_file' = save_last_id(offset_file, RESET_REG_NO, ok)
    /\ run' = [run EXCEPT ![r] = CallUpdateTask(r,
                [status |-> "complete", message |-> "No new data. Offset reset.",
                 rows_received |-> 0],
                "done")]
    /\ UNCHANGED <<source, cache, tasks_log, export_file, chunk_size, started, upsertCalls, ledgerClient, scheduling>>

\* run_full_etl_sync after its loop: the export and the final record
Export(r, ok) ==
    /\ run[r].pc = "export"
    /\ Fault(~ok)
    /\ LET res == export_data_to_excel(cache, export_file, ok)
       IN /\ export_file' = res.file
          /\ run' = [run EXCEPT ![r] = CallUpdateTask(r,
                [status |-> "complete", message |-> "Full sync finished.",
                 total_rows_received |-> run[r].total_rows_received,
                 total_rows_updated_in_cache |-> run[r].total_rows_updated,
                 exported_file |-> res.ret],
                "done")]
    /\ UNCHANGED <<source, offset_file, cache, tasks_log, chunk_size, started, upsertCalls, ledgerClient, scheduling>>

----------------------------------------------------------------------------
(* The pipeline as a whole *)

\* the source tables a run can meet: rows 1..n
InitialSources == {{SourceRow(k, PyText(<<97>>)) : k \in 1..n} : n \in 0..MaxKey}

\* the state of the parts of the system a specification does not exercise
NoResponse == [code |-> 0]
NoHashCalls == hash_arg = PyNone /\ hash_log = <<>>
NoUpsertCalls == batch = <<>> /\ upsert_log = <<>> /\ NoHashCalls
IdleLedgerClient == response = NoResponse /\ last_inserted = 0 /\ last_put = 0
IdleScheduling ==
    /\ config_file = [kind |-> "absent"]
    /\ jobs = <<>>
    /\ app_up = FALSE
    /\ last_op = [op |-> "none"]
IdlePipeline ==
    /\ source = {}
    /\ offset_file = NoFile
    /\ export_file = NoExport
    /\ chunk_size = 1
    /\ run = [r \in Tasks |-> IdleRun]
    /\ started = 0
    /\ faults = 0

Init ==
    /\ source \in InitialSources
    /\ offset_file = NoFile
    /\ cache = {}
    /\ tasks_log = NoLedger
    /\ export_file = NoExport
    /\ chunk_size \in ChunkSizes
    /\ run = [r \in Tasks |-> IdleRun]
    /\ started = 0
    /\ faults = 0
    /\ NoUpsertCalls
    /\ IdleLedgerClient
    /\ IdleScheduling

Next ==
    \/ TriggerSingle
    \/ TriggerFull
    \/ \E r \in Tasks : \E ok \in BOOLEAN : ResetOffset(r, ok)
    \/ \E r \in Tasks : LogRead(r)
    \/ \E r \in Tasks : LogWrite(r)
    \/ \E r \in Tasks : \E outcome \in {"query_error", "fetch_error", "rows"} : Fetch(r, outcome)
    \/ \E r \in Tasks : \E failAt \in 0..(MaxKey + 1) : Upsert(r, failAt)
    \/ \E r \in Tasks : \E ok \in BOOLEAN : SaveOffset(r, ok)
    \/ \E r \in Tasks : \E ok \in BOOLEAN : SaveReset(r, ok)
    \/ \E r \in Tasks : \E ok \in BOOLEAN : Export(r, ok)

Spec == Init /\ [][Next]_vars

\* a step of a run that has started: a run is a worker thread that keeps
\* running until its function returns
RunStep ==
    \/ \E r \in Tasks : \E ok \in BOOLEAN : ResetOffset(r, ok)
    \/ \E r \in Tasks : LogRead(r)
    \/ \E r \in Tasks : LogWrite(r)
    \/ \E r \in Tasks : \E outcome \in {"query_error", "fetch_error", "rows"} : Fetch(r, outcome)
    \/ \E r \in Tasks : \E failAt \in 0..(MaxKey + 1) : Upsert(r, failAt)
    \/ \E r \in Tasks : \E ok \in BOOLEAN : SaveOffset(r, ok)
    \/ \E r \in Tasks : \E ok \in BOOLEAN : SaveReset(r, ok)
    \/ \E r \in Tasks : \E ok \in BOOLEAN : Export(r, ok)

\* no run is in progress
Quiet == \A r \in Tasks : run[r].pc \in {"idle", "done", "crashed"}

\* runs triggered one after another: a trigger arrives only when no run is
\* in progress
TriggerSingleWhenQuiet == Quiet /\ TriggerSingle
TriggerFullWhenQuiet == Quiet /\ TriggerFull

NextSeq == TriggerSingleWhenQuiet \/ TriggerFullWhenQuiet \/ RunStep

SpecSeq == Init /\ [][NextSeq]_vars /\ WF_vars(RunStep)

\* The process is killed after a run's upsert_rows returned and before its
\* save_last_id: the files stay as they are and the run is gone.  The run's
\* record keeps what it held, to compare the next run with.
CrashBeforeSave(r) ==
    /\ run[r].pc = "save"
    /\ run' = [run EXCEPT ![r].pc = "crashed"]
    /\ UNCHANGED <<source, offset_file, cache, tasks_log, export_file, chunk_size, started,
                   faults, upsertCalls, ledgerClient, scheduling>>

\* a row is deleted at the source
RemoveSourceRow ==
    /\ \E row \in source : source' = source \ {row}
    /\ UNCHANGED <<offset_file, cache, tasks_log, export_file, chunk_size, run, started,
                   faults, upsertCalls, ledgerClient, scheduling>>

NextRemoval == Next \/ RemoveSourceRow

\* overlapping runs over a source that loses rows
SpecRemoval == Init /\ [][NextRemoval]_vars

NextCrash == NextSeq \/ \E r \in Tasks : CrashBeforeSave(r)

SpecCrash == Init /\ [][NextCrash]_vars

\* _update_task_in_log when open(TASKS_LOG_FILE, 'w') raises (the directory is
\* read-only, the disk is full): OSError is caught nowhere in
\* _update_task_in_log, run_etl_pipeline or run_full_etl_sync, so the
\* exception leaves the run's function and the run stops; the caller (the
\* background task runner, or the except clause of scheduled_full_sync_cycle)
\* logs it.  The file keeps its content.
LogWriteRaises(r) ==
    /\ run[r].pc = "log_write"
    /\ Fault(TRUE)
    /\ run' = [run EXCEPT ![r] = [IdleRun EXCEPT !.kind = run[r].kind, !.pc = "done",
                                                 !.ended = "raised"]]
    /\ UNCHANGED <<source, offset_file, cache, tasks_log, export_file, chunk_size, started,
                   upsertCalls, ledgerClient, scheduling>>

RunStepOrRaise == RunStep \/ \E r \in Tasks : LogWriteRaises(r)

NextRaise == TriggerSingleWhenQuiet \/ TriggerFullWhenQuiet \/ RunStepOrRaise

\* runs one after another, each of which keeps running until its function
\* returns or raises
SpecRaise == Init /\ [][NextRaise]_vars /\ WF_vars(RunStepOrRaise)

----------------------------------------------------------------------------
(* upsert_rows called directly, twice or more on the same batch *)

MaxBatchKey == 2
MaxBatchLen == 2
MaxCalls == 2

\* the lists of source rows of at most MaxBatchLen rows; a list may hold the
\* same Reg_no twice
RECURSIVE SeqsUpTo(_, _)
SeqsUpTo(S, n) ==
    IF n = 0 THEN {<<>>}
    ELSE SeqsUpTo(S, n - 1)
            \cup {Append(q, x) : q \in {q \in SeqsUpTo(S, n - 1) : Len(q) = n - 1}, x \in S}

BatchRows == {SourceRow(k, b) : k \in 1..MaxBatchKey, b \in BuyerVals}
Batches == {_process_and_hash_data(data) : data \in SeqsUpTo(BatchRows, MaxBatchLen)}

\* the caches that committed upserts produce from the empty table
InitialCaches == {upsert_rows({}, rows, 0).cache : rows \in Batches}

InitUpsert ==
    /\ cache \in InitialCaches
    /\ batch \in Batches
    /\ upsert_log = <<>>
    /\ NoHashCalls
    /\ tasks_log = NoLedger
    /\ IdlePipeline
    /\ IdleLedgerClient
    /\ IdleScheduling

\* one call upsert_rows(batch)
CallUpsertRows(failAt) ==
    /\ Len(upsert_log) < MaxCalls
    /\ failAt \in 0..(Len(batch) + 1)
    /\ LET res == upsert_rows(cache, batch, failAt)
       IN /\ cache' = res.cache
          /\ upsert_log' = Append(upsert_log,
                [rows |-> batch, before |-> cache, after |-> res.cache,
                 ret |-> res.ret, committed |-> res.committed, written |-> res.written])
    /\ UNCHANGED <<source, offset_file, tasks_log, export_file, chunk_size, run, started,
                   faults, batch, hashCalls, ledgerClient, scheduling>>

NextUpsert == \E failAt \in 0..(MaxBatchLen + 1) : CallUpsertRows(failAt)

SpecUpsert == InitUpsert /\ [][NextUpsert]_vars

----------------------------------------------------------------------------
(* A chunk processed, altered at the source and processed again
   (app/services/etl.py 39-47 and 152-154) *)

\* the text 'None'
NoneText == PyText(<<78, 111, 110, 101>>)

\* the values a Buyer column takes: a text, NULL, and the text 'None'
ChangeFieldVals == {PyText(<<97>>), PyNone, NoneText}

\* the chunks of source rows: ascending Reg_no, no Reg_no twice
Chunks ==
    {q \in SeqsUpTo({SourceRow(k, b) : k \in 1..MaxBatchKey, b \in ChangeFieldVals}, MaxBatchLen) :
        \A i, j \in 1..Len(q) : i < j => q[i].Reg_no < q[j].Reg_no}

InitChange ==
    /\ batch \in Chunks
    /\ upsert_log = <<>>
    /\ NoHashCalls
    /\ cache = {}
    /\ tasks_log = NoLedger
    /\ IdlePipeline
    /\ IdleLedgerClient
    /\ IdleScheduling

\* processed_data = _process_and_hash_data(source_data);
\* updated_count = upsert_rows(processed_data)
ProcessChunk(failAt) ==
    /\ Len(upsert_log) < MaxCalls
    /\ failAt \in 0..(Len(batch) + 1)
    /\ LET res == upsert_rows(cache, _process_and_hash_data(batch), failAt)
       IN /\ cache' = res.cache
          /\ upsert_log' = Append(upsert_log,
                [rows |-> batch, before |-> cache, after |-> res.cache,
                 ret |-> res.ret, committed |-> res.committed, written |-> res.written])
    /\ UNCHANGED <<source, offset_file, tasks_log, export_file, chunk_size, run, started,
                   faults, batch, hashCalls, ledgerClient, scheduling>>

\* the source changes the Buyer of one row of the chunk
AlterOneField ==
    /\ Len(upsert_log) = 1
    /\ \E i \in 1..Len(batch) : \E b \in ChangeFieldVals :
          /\ b # batch[i].Buyer
          /\ batch' = [batch EXCEPT ![i].Buyer = b]
    /\ UNCHANGED <<pipeline, cache, tasks_log, upsert_log, hashCalls, ledgerClient, scheduling>>

NextChange == AlterOneField \/ \E failAt \in 0..(MaxBatchLen + 1) : ProcessChunk(failAt)

SpecChange == InitChange /\ [][NextChange]_vars

----------------------------------------------------------------------------
(* calculate_row_hash called directly (app/services/hashing.py) *)

MaxHashCalls == 2

\* the hash value 0
Zero32 == <<0, 0>>

\* an object whose __str__ raises
PyUnprintable == [t |-> "raises", v |-> <<>>]

\* a dict as Python keeps it: its items in insertion order
PyDict(items) == [t |-> "dict", items |-> items]
\* a list of the same pairs, which is not a dict
PyList(items) == [t |-> "list", items |-> items]

\* isinstance(row, dict)
isinstance_dict(x) == x.t = "dict"

\* row.keys(): the keys in insertion order
dict_keys(x) == [i \in 1..Len(x.items) |-> x.items[i][1]]

\* row[key] for every key of the dict
DictOf(x) ==
    [key \in {x.items[i][1] : i \in 1..Len(x.items)} |->
        x.items[CHOOSE i \in 1..Len(x.items) : x.items[i][1] = key][2]]

\* a join that takes the keys as the dict yields them
insertion_order(keys) == keys

\* sorted(keys)
sorted(keys) == SelectSeq(ColumnOrder, LAMBDA c : \E i \in 1..Len(keys) : keys[i] = c)

\* str(row[key]) raises for some key
StrRaises(x) ==
    \E i \in 1..Len(x.items) : x.items[i][2] = PyUnprintable

\* calculate_row_hash(x) for any Python value x: 0 for a value that is not a
\* dict, 0 when the try block raises, else the checksum of the joined text
CalculateRowHash(x) ==
    IF ~isinstance_dict(x) THEN Zero32
    ELSE IF StrRaises(x) THEN Zero32
    ELSE crc32(JoinStr(DictOf(x), sorted(dict_keys(x))))

\* the field values and the items of the dicts handed to calculate_row_hash
HashFieldVals == {PyText(<<97>>), PyNone, PyUnprintable}
HashItems ==
    {<<"Buyer", PyText(<<97>>)>>} \cup {<<"buyer", b>> : b \in HashFieldVals}
        \cup {<<"Extra", PyText(<<98>>)>>}

\* the sequences of items with pairwise different keys
ItemSeqs ==
    {q \in SeqsUpTo(HashItems, 3) : \A i, j \in 1..Len(q) : q[i][1] = q[j][1] => i = j}

\* the values handed to calculate_row_hash
HashArgs ==
    {PyDict(q) : q \in ItemSeqs} \cup {PyList(q) : q \in ItemSeqs}
        \cup {PyNone, PyText(<<97>>)}

\* two dicts with the same key/value pairs
SamePairs(x, y) ==
    /\ isinstance_dict(x) /\ isinstance_dict(y)
    /\ {x.items[i] : i \in 1..Len(x.items)} = {y.items[i] : i \in 1..Len(y.items)}

InitHash ==
    /\ hash_arg \in HashArgs
    /\ hash_log = <<>>
    /\ batch = <<>>
    /\ upsert_log = <<>>
    /\ cache = {}
    /\ tasks_log = NoLedger
    /\ IdlePipeline
    /\ IdleLedgerClient
    /\ IdleScheduling

\* one call calculate_row_hash(hash_arg)
CallCalculateRowHash ==
    /\ Len(hash_log) < MaxHashCalls
    /\ hash_log' = Append(hash_log, [arg |-> hash_arg, ret |-> CalculateRowHash(hash_arg)])
    /\ UNCHANGED <<pipeline, batch, upsert_log, hash_arg, ledgerClient, scheduling>>

\* the caller builds the dict again, inserting the same pairs in another order
Reinsert ==
    /\ isinstance_dict(hash_arg)
    /\ \E y \in HashArgs :
          /\ SamePairs(hash_arg, y)
          /\ y # hash_arg
          /\ hash_arg' = y
    /\ UNCHANGED <<pipeline, batch, upsert_log, hash_log, ledgerClient, scheduling>>

NextHash == CallCalculateRowHash \/ Reinsert

SpecHash == InitHash /\ [][NextHash]_vars

----------------------------------------------------------------------------
(* _process_and_hash_data called on rows with a column KEY_MAPPING does not
   name (app/services/etl.py 28 and 39-47) *)

\* the values of the unmapped column
ExtraVals == {PyText(<<120>>), PyText(<<121>>)}

\* a source row with a column that is not a key of KEY_MAPPING
SourceRowWithExtra(k, b, x) == [Reg_no |-> k, Buyer |-> b, Extra |-> x]

\* the source columns KEY_MAPPING names, and the canonical names it maps to
MappedColumns == {"Reg_no", "Buyer"}
CanonicalFields == {KEY_MAPPING_get(k) : k \in MappedColumns}

\* the rows a query returns: with or without the unmapped column
RowsOfAnyShape ==
    {SourceRow(k, b) : k \in 1..MaxBatchKey, b \in BuyerVals}
        \cup {SourceRowWithExtra(k, b, x) : k \in 1..MaxBatchKey, b \in BuyerVals, x \in ExtraVals}

InitNorm ==
    /\ batch \in {q \in SeqsUpTo(RowsOfAnyShape, MaxBatchLen) :
                    \A i, j \in 1..Len(q) : i < j => q[i].Reg_no < q[j].Reg_no}
    /\ hash_arg = PyNone
    /\ hash_log = <<>>
    /\ upsert_log = <<>>
    /\ cache = {}
    /\ tasks_log = NoLedger
    /\ IdlePipeline
    /\ IdleLedgerClient
    /\ IdleScheduling

\* one call _process_and_hash_data(batch)
CallProcessAndHash ==
    /\ Len(hash_log) < MaxHashCalls
    /\ hash_log' = Append(hash_log, [arg |-> batch, ret |-> _process_and_hash_data(batch)])
    /\ UNCHANGED <<pipeline, cache, tasks_log, batch, upsert_log, hash_arg, ledgerClient, scheduling>>

\* the source changes the value of the unmapped column of one row
AlterUnmappedColumn ==
    /\ \E i \in 1..Len(batch) : \E x \in ExtraVals :
          /\ "Extra" \in DOMAIN batch[i]
          /\ x # batch[i].Extra
          /\ batch' = [batch EXCEPT ![i].Extra = x]
    /\ UNCHANGED <<pipeline, cache, tasks_log, upsert_log, hashCalls, ledgerClient, scheduling>>

NextNorm == CallProcessAndHash \/ AlterUnmappedColumn

SpecNorm == InitNorm /\ [][NextNorm]_vars

----------------------------------------------------------------------------
(* The task ledger and GET /api/v1/etl-status/latest (app/api/v1/endpoints.py) *)

MaxLedgerIds == 3
LedgerIds == 1..MaxLedgerIds
LedgerRecords == {[status |-> "running"], [status |-> "success"]}

\* a ledger file whose text is not JSON, and one that holds {"tasks": {}}
CorruptLedger == [kind |-> "corrupt", tasks |-> <<>>]
EmptyLedger == [kind |-> "ok", tasks |-> <<>>]

\* the exception raised in the try block of get_latest_etl_status, "none" when
\* it reaches its return
RaisedInTry(f) ==
    CASE f.kind = "absent" -> "HTTPException(404)"
      [] f.kind = "corrupt" -> "JSONDecodeError"
      [] f.tasks = <<>> -> "HTTPException(404)"
      [] OTHER -> "none"

\* the except clauses of get_latest_etl_status, in their order: JSONDecodeError,
\* (KeyError, IndexError), Exception.  HTTPException is an Exception.
ExceptClauses(raised) ==
    CASE raised = "JSONDecodeError" -> [code |-> 500, detail |-> "Failed to read status file."]
      [] raised \in {"KeyError", "IndexError"} ->
            [code |-> 404, detail |-> "Could not find any tasks in the log."]
      [] OTHER -> [code |-> 500, detail |-> "An internal error occurred."]

\* list(tasks.keys())[-1] and its record
get_latest_etl_status(f) ==
    IF RaisedInTry(f) # "none" THEN ExceptClauses(RaisedInTry(f))
    ELSE [code |-> 200,
          latest_task_id |-> f.tasks[Len(f.tasks)].id,
          info |-> f.tasks[Len(f.tasks)].rec]

InitLedger ==
    /\ tasks_log \in {NoLedger, EmptyLedger, CorruptLedger}
    /\ cache = {}
    /\ IdleLedgerClient
    /\ IdlePipeline
    /\ NoUpsertCalls
    /\ IdleScheduling

\* one whole call _update_task_in_log(id, rec)
UpdateTaskInLog(id, rec) ==
    /\ tasks_log' = [kind |-> "ok", tasks |-> PutTask(ReadTasks(tasks_log), id, rec)]
    /\ last_inserted' = IF HasTask(ReadTasks(tasks_log), id) THEN last_inserted ELSE id
    /\ last_put' = id
    /\ response' = NoResponse
    /\ UNCHANGED <<source, offset_file, cache, export_file, chunk_size, run, started,
                   faults, upsertCalls, scheduling>>

\* one request GET /api/v1/etl-status/latest
GetLatest ==
    /\ response = NoResponse
    /\ response' = get_latest_etl_status(tasks_log)
    /\ UNCHANGED <<source, offset_file, cache, tasks_log, export_file, chunk_size, run,
                   started, faults, upsertCalls, last_inserted, last_put, scheduling>>

NextLedger ==
    \/ \E id \in LedgerIds : \E rec \in LedgerRecords : UpdateTaskInLog(id, rec)
    \/ GetLatest

SpecLedger == InitLedger /\ [][NextLedger]_vars

----------------------------------------------------------------------------
(* The periodic job and the configuration (app/core/scheduler.py,           *)
(* app/core/config_manager.py, POST /api/v1/config of app/main.py)          *)

SCHEDULED_JOB_ID == "full_sync_job"

\* JSON values of scheduler.interval_minutes: an integer of minutes, an
\* integer beyond the range of datetime.timedelta (such as 10**13), a text
\* that is not a number (such as "abc"), and the key being absent
PyInt(n) == [t |-> "int", v |-> n]
BigInt == [t |-> "bigint", v |-> 0]
NotANumber == [t |-> "str", v |-> 0]
NoKey == [t |-> "missing", v |-> 0]

\* a configuration: whether it has a "scheduler" object, and that object's
\* interval_minutes
Config(has_scheduler, interval) ==
    [kind |-> "ok", scheduler |-> has_scheduler,
     interval |-> IF has_scheduler THEN interval ELSE NoKey]
NoConfigFile == [kind |-> "absent"]
DEFAULT_CONFIG == Config(TRUE, PyInt(60))

\* get_config: [ret, file]; a missing file is created with the defaults
get_config(f) ==
    IF f.kind = "absent" THEN [ret |-> DEFAULT_CONFIG, file |-> DEFAULT_CONFIG]
    ELSE [ret |-> f, file |-> f]

\* save_config: the file after the call; an IOError is logged and swallowed
save_config(f, config_data, disk_ok) == IF disk_ok THEN config_data ELSE f

\* config.get("scheduler", {}).get("interval_minutes", 60)
IntervalOf(config) ==
    IF config.scheduler /\ config.interval # NoKey THEN config.interval ELSE PyInt(60)

\* scheduler.add_job(..., trigger='interval', minutes=m, id=SCHEDULED_JOB_ID):
\* the trigger is built first, and timedelta(minutes=m) raises OverflowError
\* for an integer out of range and TypeError for a text
AddJobRaises(m) == m.t # "int"
add_job(js, m) == Append(js, [id |-> SCHEDULED_JOB_ID, minutes |-> m.v])

\* scheduler.get_job(id) and scheduler.remove_job(id)
get_job(js, id) == \E i \in 1..Len(js) : js[i].id = id
remove_job(js, id) == SelectSeq(js, LAMBDA j : j.id # id)

\* reschedule_job(m): [jobs, file].  Everything is inside one try whose except
\* clause logs and returns.
reschedule_job(js, f, m, disk_ok) ==
    LET removed == IF get_job(js, SCHEDULED_JOB_ID) THEN remove_job(js, SCHEDULED_JOB_ID) ELSE js
        current == get_config(f)
    IN IF AddJobRaises(m) THEN [jobs |-> removed, file |-> f]
       ELSE IF ~current.ret.scheduler
            THEN [jobs |-> add_job(removed, m), file |-> current.file]
            ELSE [jobs |-> add_job(removed, m),
                  file |-> save_config(current.file, [current.ret EXCEPT !.interval = m], disk_ok)]

\* int(x)
IntRaises(x) == x.t = "str"

\* update_config(body): [jobs, file, code]
update_config(js, f, body, disk_ok) ==
    LET saved == save_config(f, body, disk_ok)
        new_interval == IntervalOf(body)
        res == reschedule_job(js, saved, new_interval, disk_ok)
    IN IF IntRaises(new_interval) THEN [jobs |-> js, file |-> saved, code |-> 500]
       ELSE [jobs |-> res.jobs, file |-> res.file, code |-> 200]

\* import of app.core.scheduler: get_config, then add_job with the configured
\* interval; an exception there ends the process
Startup(f) ==
    LET initial_config == get_config(f)
        initial_interval == IntervalOf(initial_config.ret)
    IN [file |-> initial_config.file,
        jobs |-> IF AddJobRaises(initial_interval) THEN <<>> ELSE add_job(<<>>, initial_interval),
        up |-> ~AddJobRaises(initial_interval)]

\* the intervals a caller asks for
Minutes == {5, 15, 30, 45}
IntervalArgs == {PyInt(n) : n \in Minutes} \cup {BigInt}
Bodies == {Config(FALSE, NoKey)}
            \cup {Config(TRUE, i) : i \in IntervalArgs \cup {NoKey, NotANumber}}

NoOp == [op |-> "none", arg |-> NoKey, code |-> 0]

InitSched ==
    /\ \E f \in {NoConfigFile} \cup {Config(TRUE, PyInt(n)) : n \in Minutes} :
          /\ config_file = Startup(f).file
          /\ jobs = Startup(f).jobs
          /\ app_up = Startup(f).up
    /\ last_op = NoOp
    /\ cache = {}
    /\ tasks_log = NoLedger
    /\ IdlePipeline
    /\ NoUpsertCalls
    /\ IdleLedgerClient

\* one call reschedule_job(m)
RescheduleJob(m, disk_ok) ==
    /\ app_up
    /\ LET res == reschedule_job(jobs, config_file, m, disk_ok)
       IN jobs' = res.jobs /\ config_file' = res.file
    /\ last_op' = [op |-> "reschedule_job", arg |-> m, code |-> 0]
    /\ UNCHANGED <<pipeline, upsertCalls, ledgerClient, app_up>>

\* one request POST /api/v1/config with body
UpdateConfig(body, disk_ok) ==
    /\ app_up
    /\ LET res == update_config(jobs, config_file, body, disk_ok)
       IN /\ jobs' = res.jobs
          /\ config_file' = res.file
          /\ last_op' = [op |-> "update_config", arg |-> IntervalOf(body), code |-> res.code]
    /\ UNCHANGED <<pipeline, upsertCalls, ledgerClient, app_up>>

\* the process is stopped and started again: the job store is in memory
Restart ==
    /\ config_file' = Startup(config_file).file
    /\ jobs' = Startup(config_file).jobs
    /\ app_up' = Startup(config_file).up
    /\ last_op' = [op |-> "restart", arg |-> IntervalOf(get_config(config_file).ret), code |-> 0]
    /\ UNCHANGED <<pipeline, upsertCalls, ledgerClient>>

NextSched ==
    \/ \E m \in IntervalArgs : \E disk_ok \in BOOLEAN : RescheduleJob(m, disk_ok)
    \/ \E body \in Bodies : \E disk_ok \in BOOLEAN : UpdateConfig(body, disk_ok)
    \/ Restart

SpecSched == InitSched /\ [][NextSched]_vars

----------------------------------------------------------------------------
(* app/core/scheduler.py: a firing of the periodic job *)

MaxFirings == 3

\* what a firing finds at app/query/refresh.sql: no file, a file that cannot
\* be read, a file of white space, a file with a command
RefreshFiles == {"missing", "unreadable", "blank", "command"}

\* a refresh step that never stops the firing
refresh_step_never_aborting(refresh_file) == "executed"

\* Step 1 of scheduled_full_sync_cycle.  read_text raises FileNotFoundError
\* or another OSError; a blank command is skipped; a command is handed to
\* mssql.execute_raw_sql, a name app/db/mssql.py does not define, so the call
\* raises AttributeError, which the "except Exception" clause catches.
refresh_step(refresh_file) ==
    CASE refresh_file = "missing" -> "FileNotFoundError"
      [] refresh_file = "unreadable" -> "Exception"
      [] refresh_file = "blank" -> "skipped"
      [] OTHER -> "Exception"

\* the firing goes on to step 2 (sleep, uuid4, run_full_etl_sync)
GoesOnToSync(outcome) == outcome \in {"skipped", "executed"}

NoFiring == [op |-> "none", refresh |-> "none", outcome |-> "none", fired |-> 0]

InitFire ==
    /\ source \in InitialSources
    /\ offset_file = NoFile
    /\ cache = {}
    /\ tasks_log = NoLedger
    /\ export_file = NoExport
    /\ chunk_size \in ChunkSizes
    /\ run = [r \in Tasks |-> IdleRun]
    /\ started = 0
    /\ faults = 0
    /\ NoUpsertCalls
    /\ IdleLedgerClient
    /\ config_file = Startup(NoConfigFile).file
    /\ jobs = Startup(NoConfigFile).jobs
    /\ app_up = Startup(NoConfigFile).up
    /\ last_op = NoFiring

\* One firing of scheduled_full_sync_cycle.  The job runs in the scheduler's
\* executor, one instance at a time; when step 1 ends in a return nothing
\* else is done, otherwise run_full_etl_sync is called with a new task id and
\* runs in the same thread until it returns.
ScheduledFullSyncCycle(refresh_file) ==
    /\ app_up /\ get_job(jobs, SCHEDULED_JOB_ID)
    /\ Quiet
    /\ last_op.fired < MaxFirings
    /\ last_op' = [op |-> "fire", refresh |-> refresh_file,
                    outcome |-> refresh_step(refresh_file), fired |-> last_op.fired + 1]
    /\ IF GoesOnToSync(refresh_step(refresh_file))
       THEN /\ started < MaxTasks
            /\ started' = started + 1
            /\ run' = [run EXCEPT ![started + 1] = [IdleRun EXCEPT !.kind = "full", !.pc = "reset"]]
       ELSE UNCHANGED <<run, started>>
    /\ UNCHANGED <<source, offset_file, cache, tasks_log, export_file, chunk_size, faults,
                   upsertCalls, ledgerClient, config_file, jobs, app_up>>

\* the periodic job next to the runs triggered over HTTP
NextFire == NextSeq \/ \E refresh_file \in RefreshFiles : ScheduledFullSyncCycle(refresh_file)

SpecFire == InitFire /\ [][NextFire]_vars /\ WF_vars(RunStep)

----------------------------------------------------------------------------
(* Properties *)

\* a source row is in the cache with its current content
Cached(row) ==
    \E rec \in cache : /\ rec.reg_no = row["Reg_no"]
                       /\ rec.hash_value = ProcessRow(row)["hash_value"]

\* C1: the cursor is persisted with a chunk's last key only after the chunk
\* was committed to the cache, so the stored cursor never stands past a source
\* row that the cache does not hold (no row between the sentinel and the
\* cursor is skipped).
C1_CursorOnlyPastCommittedRows ==
    \A row \in source :
        (RESET_REG_NO < row["Reg_no"] /\ row["Reg_no"] <= LoadLastId(offset_file))
            => Cached(row)

\* the final ledger record of a full sync is being written
FinalRecordOfFull(r) ==
    /\ run[r].kind = "full"
    /\ run[r].pc \in {"log_read", "log_write"}
    /\ run[r].after = "done"

\* C2: a full sync whose extraction met a hard error is recorded with status
\* error, and a full sync is recorded as complete only when its loop ended on
\* an empty chunk.
C2_HardErrorIsRecordedAsError ==
    \A r \in Tasks :
        FinalRecordOfFull(r) =>
            /\ run[r].ended = "error" => run[r].result.status = "error"
            /\ run[r].result.status = "complete" => run[r].ended = "empty"

\* the runs that have loaded the cursor and not yet saved it
BetweenLoadAndSave == {r \in Tasks : run[r].pc \in {"upsert", "save", "save_reset"}}

\* C3: at most one run at a time is between loading the cursor and saving it.
C3_SingleFlight == Cardinality(BetweenLoadAndSave) <= 1

\* no two records of a batch have the same key and different hash values
NoConflictingRecords(rows) ==
    \A i, j \in 1..Len(rows) :
        rows[i]["reg_no"] = rows[j]["reg_no"] => rows[i]["hash_value"] = rows[j]["hash_value"]

\* the second of two consecutive calls changed nothing
SecondCallIsNoOp(i) ==
    /\ upsert_log[i + 1].ret = 0
    /\ upsert_log[i + 1].after = upsert_log[i + 1].before

\* C4 as stated: of two consecutive upsert_rows calls with the same batch, the
\* second returns 0 and leaves the cache as it was.
C4_SecondCallIsNoOp ==
    \A i \in 1..(Len(upsert_log) - 1) :
        upsert_log[i].rows = upsert_log[i + 1].rows => SecondCallIsNoOp(i)

\* C4 amended: of two consecutive upsert_rows calls with the same batch, the
\* second returns 0 and leaves the cache as it was, provided the first call
\* committed and the batch holds no key twice with different hash values.
C4_SecondCallIsNoOpAfterCommit ==
    \A i \in 1..(Len(upsert_log) - 1) :
        (/\ upsert_log[i].rows = upsert_log[i + 1].rows
         /\ upsert_log[i].committed
         /\ NoConflictingRecords(upsert_log[i].rows))
            => SecondCallIsNoOp(i)

\* a first call that wrote rows and committed, followed by a second call
C4_RewroteNothing ==
    /\ Len(upsert_log) = 2
    /\ NoConflictingRecords(batch)
    /\ upsert_log[1].committed
    /\ upsert_log[1].ret > 0
    /\ upsert_log[2].ret = 0

\* C5: the value returned by upsert_rows is the number of rows the call wrote
\* to the cache, in every outcome.
C5_ReturnsRowsWritten ==
    \A i \in 1..Len(upsert_log) : upsert_log[i].ret = upsert_log[i].written

\* C6: when the ledger file does not exist, or exists and holds no tasks, the
\* latest-status request answers 404 and nothing else.
C6_NotFoundWithoutTasks ==
    (/\ response # NoResponse
     /\ \/ tasks_log.kind = "absent"
        \/ tasks_log.kind = "ok" /\ tasks_log.tasks = <<>>)
        => response.code = 404

\* C7: the latest-status request reports the task id that was inserted into
\* the ledger most recently; a put that updates a task already present does
\* not change which task is reported.
C7_LatestIsLastInserted ==
    response.code = 200 =>
        /\ response.latest_task_id = last_inserted
        /\ response.info = TaskRecord(tasks_log, last_inserted)

\* the latest task is reported after a put that updated an earlier task
C7_ReportedAfterUpdateOfEarlierTask ==
    /\ response.code = 200
    /\ last_put # last_inserted
    /\ Len(tasks_log.tasks) >= 2

\* C8: once a task's ledger record holds a terminal status, no later ledger
\* write changes or removes that record.
C8_TerminalRecordsImmutable ==
    [][\A id \in Tasks :
          TaskRecord(tasks_log, id).status \in TerminalStatuses
              => TaskRecord(tasks_log', id) = TaskRecord(tasks_log, id)]_vars

\* C9: while the application runs exactly one periodic job exists, and after
\* a reschedule_job call its interval is the interval of that call.
C9_ExactlyOneJob ==
    app_up =>
        /\ Len(jobs) = 1
        /\ jobs[1].id = SCHEDULED_JOB_ID
        /\ last_op.op = "reschedule_job" => PyInt(jobs[1].minutes) = last_op.arg

\* C10: after every update_config call the persisted interval_minutes, as a
\* restart would read it, is the interval of the live periodic job.
C10_PersistedIntervalIsLive ==
    (app_up /\ last_op.op = "update_config") =>
        /\ Len(jobs) = 1
        /\ IntervalOf(get_config(config_file).ret) = PyInt(jobs[1].minutes)

\* a full sync has been triggered and has not yet written its final record
FullSyncInProgress == \E r \in Tasks : run[r].kind = "full" /\ run[r].pc # "done"

AsCacheRecords(rows) ==
    {[reg_no |-> ProcessRow(row)["reg_no"], buyer |-> ProcessRow(row)["buyer"],
      hash_value |-> ProcessRow(row)["hash_value"]] : row \in rows}

\* the rows of a chunk
RowsOf(chunk) == {chunk[i] : i \in 1..Len(chunk)}

\* the cache a first run of a kind leaves when nothing fails and nothing
\* crashes: a single cycle stores the first chunk, a full sync every row after
\* the sentinel
CrashFreeCache(kind) ==
    IF kind = "single"
    THEN AsCacheRecords(RowsOf(FetchChunk(source, EmptyId, chunk_size)))
    ELSE AsCacheRecords(RowsAfter(source, RESET_REG_NO))

\* the first run crashed between upsert and save, nothing else failed, and
\* the second run, the last one triggered, is of the same kind
RecoveryRun ==
    /\ run[1].pc = "crashed"
    /\ run[2].kind = run[1].kind
    /\ started = 2
    /\ faults = 0

FullSyncFinished(r) ==
    /\ run[r].kind = "full"
    /\ run[r].pc = "done"
    /\ TaskRecord(tasks_log, r).status = "complete"

ExportFailedIn(r) ==
    /\ run[r].pc = "export"
    /\ run'[r].pc # "export"
    /\ faults' = faults + 1

\* C14: when the export of a full sync fails, the exporter result is none,
\* the run goes on to record "complete" with exported_file none and with the
\* row counters it had (the record of a successful export but for the path),
\* that record is what its last ledger write stores, and the failed export
\* leaves the cache and the cursor as they were.
C14_ExportFailureIsNotFatal ==
    [][\A r \in Tasks :
          /\ ExportFailedIn(r) =>
                /\ run'[r].result =
                      [status |-> "complete", message |-> "Full sync finished.",
                       total_rows_received |-> run[r].total_rows_received,
                       total_rows_updated_in_cache |-> run[r].total_rows_updated,
                       exported_file |-> "None"]
                /\ run'[r].after = "done"
                /\ cache' = cache
                /\ offset_file' = offset_file
          /\ (run[r].kind = "full" /\ run[r].pc = "log_write" /\ run[r].after = "done"
                /\ run'[r].pc = "done")
                => TaskRecord(tasks_log', r) = run[r].result]_vars

\* a full sync whose export raised over a non-empty cache has ended as
\* complete without a path
C14_CompletedWithoutSnapshot ==
    \E r \in Tasks :
        /\ FullSyncFinished(r)
        /\ TaskRecord(tasks_log, r).exported_file = "None"
        /\ TaskRecord(tasks_log, r).total_rows_updated_in_cache >= 1
        /\ cache # {}
        /\ ~export_file.exists
        /\ faults = 1

\* C15: calculate_row_hash gives the same value for the same argument, the
\* same value for two dicts with the same key/value pairs whatever the order
\* they were inserted in, and 0 for every argument that is not a dict.
C15_HashIgnoresInsertionOrder ==
    \A i, j \in 1..Len(hash_log) :
        /\ hash_log[i].arg = hash_log[j].arg => hash_log[i].ret = hash_log[j].ret
        /\ SamePairs(hash_log[i].arg, hash_log[j].arg) => hash_log[i].ret = hash_log[j].ret
        /\ ~isinstance_dict(hash_log[i].arg) => hash_log[i].ret = Zero32

\* a dict of three fields was hashed, inserted in two different orders, to a
\* value other than 0
C15_HashedInTwoOrders ==
    /\ Len(hash_log) = 2
    /\ hash_log[1].arg # hash_log[2].arg
    /\ SamePairs(hash_log[1].arg, hash_log[2].arg)
    /\ Len(hash_log[1].arg.items) = 3
    /\ hash_log[1].ret # Zero32

\* the rows at which two chunks of the same length differ
AlteredRows(old, new) == {i \in 1..Len(old) : old[i] # new[i]}

\* the cache record of a source row
RecordOf(row) == CHOOSE rec \in AsCacheRecords({row}) : TRUE

\* C16: a chunk was processed and committed, exactly one field of one of its
\* rows was altered, and the chunk was processed and committed again: the
\* row's hash has changed, the second upsert_rows returns 1, the row's record
\* is rewritten and every other record of the cache is as it was.
C16_OneAlteredFieldRewritesOneRecord ==
    (/\ Len(upsert_log) = 2
     /\ upsert_log[1].committed /\ upsert_log[2].committed
     /\ Cardinality(AlteredRows(upsert_log[1].rows, upsert_log[2].rows)) = 1)
    => LET old == upsert_log[1].rows
           new == upsert_log[2].rows
           i == CHOOSE i \in AlteredRows(old, new) : TRUE
       IN /\ RecordOf(new[i]).hash_value # RecordOf(old[i]).hash_value
          /\ upsert_log[2].ret = 1
          /\ upsert_log[2].after =
                (upsert_log[2].before \ {RecordOf(old[i])}) \cup {RecordOf(new[i])}

\* the run is inside its first _update_task_in_log, before its fetch
BeforeFetch(r) == run[r].pc \in {"log_read", "log_write"} /\ run[r].after = "fetch"

\* C17: a single-cycle run fetches once, at the stored cursor and with the
\* configured chunk size; on an empty chunk it leaves the cache as it is and
\* resets the stored cursor to the sentinel; on a non-empty chunk the rows of
\* the chunk are in the cache after its upsert and the stored cursor is the
\* key of the chunk's last row after its save; it never fetches again and
\* never reaches the export.
C17_SingleCycle ==
    [][\A r \in Tasks :
          run[r].kind = "single" =>
              /\ run'[r].pc # "export"
              /\ (run[r].pc # "fetch" /\ ~BeforeFetch(r)) => run'[r].pc # "fetch"
              /\ (run[r].pc = "fetch" /\ run'[r].pc = "upsert") =>
                    run'[r].source_data
                        = FetchChunk(source, LoadLastId(offset_file), chunk_size)
              /\ (run[r].pc = "fetch" /\ run'[r].pc = "save_reset") =>
                    /\ FetchChunk(source, LoadLastId(offset_file), chunk_size) = <<>>
                    /\ cache' = cache
              /\ (run[r].pc = "save_reset" /\ run'[r].pc # "save_reset") =>
                    /\ cache' = cache
                    /\ offset_file' = RESET_REG_NO
              /\ (run[r].pc = "upsert" /\ run'[r].pc = "save") =>
                    AsCacheRecords(RowsOf(run[r].source_data)) \subseteq cache'
              /\ (run[r].pc = "save" /\ run'[r].pc # "save") =>
                    offset_file' = run[r].source_data[Len(run[r].source_data)].Reg_no]_vars

\* run r, a full sync, has left its loop on an empty chunk and holds its
\* final counters
LoopExhausted(r) ==
    /\ run[r].kind = "full"
    /\ run[r].pc = "export"
    /\ run[r].ended = "empty"

\* the positions the first full sync can start from: the sentinel, or '' when
\* the offset file could not be written
StartPositions == {RESET_REG_NO, LoadLastId(NoFile)}

\* C18: the source does not change.  A first full sync that fetched to
\* exhaustion has received every source row after the start position and has
\* counted as updated every one of them (the cache was empty, so each was
\* absent); a full sync that follows a finished full sync has received the
\* same number of rows and has counted none as updated.
C18_FullSyncCounters ==
    /\ LoopExhausted(1) =>
          \E start \in StartPositions :
              /\ run[1].total_rows_received = Cardinality(RowsAfter(source, start))
              /\ run[1].total_rows_updated = Cardinality(RowsAfter(source, start))
    /\ (FullSyncFinished(1) /\ LoopExhausted(2)) =>
          /\ run[2].total_rows_received = TaskRecord(tasks_log, 1).total_rows_received
          /\ run[2].total_rows_updated = 0

\* run r was aborted by an extraction error and is at its end: a full sync
\* after its loop, a single cycle with its error record written
AbortedOnExtractionError(r) ==
    \/ run[r].kind = "full" /\ run[r].ended = "error"
            /\ run[r].pc \in {"export", "log_read", "log_write"}
    \/ run[r].kind = "single" /\ run[r].pc = "done"
            /\ TaskRecord(tasks_log, r).status = "error"

\* C19: when the first run, full sync or single cycle, was aborted by an
\* extraction error and no other run has been triggered, the position the
\* next run loads from the offset file is the position it would have loaded
\* before the run was triggered.
C19_CursorUntouchedByAbortedRun ==
    (started = 1 /\ AbortedOnExtractionError(1))
        => LoadLastId(offset_file) = LoadLastId(NoFile)

\* C20: in a full sync, each save_last_id of the chunk loop stores the key of
\* the chunk's last row, which is greater than the cursor loaded for that
\* chunk, and while the run is between two chunks nothing else changes the
\* stored cursor, so the next chunk is fetched at the cursor the previous
\* chunk stored.
C20_CursorStrictlyAdvancing ==
    [][\A r \in Tasks :
          run[r].kind = "full" =>
              /\ (run[r].pc = "save" /\ run'[r].pc # "save") =>
                    /\ NewLastId(run[r].source_data) > run[r].last_id
                    /\ offset_file' = NewLastId(run[r].source_data)
              /\ (run[r].pc = "fetch" /\ run[r].total_rows_received > 0) =>
                    offset_file' = offset_file]_vars

\* the record of a batch row as INSERT OR REPLACE stores it
StoredForm(row) ==
    [reg_no |-> row["reg_no"], buyer |-> row["buyer"], hash_value |-> row["hash_value"]]

\* no record with the row's primary key is cached, or the cached hash differs
AbsentOrDifferent(c, row) ==
    ~ \E rec \in c : rec.reg_no = row["reg_no"] /\ rec.hash_value = row["hash_value"]

\* what the records rows[i..] of a batch do to cache c and to the count n when
\* each is written and counted exactly if it is absent or different
RECURSIVE WrittenIffAbsentOrDifferent(_, _, _, _)
WrittenIffAbsentOrDifferent(c, n, rows, i) ==
    IF i > Len(rows) THEN [cache |-> c, count |-> n]
    ELSE IF AbsentOrDifferent(c, rows[i])
         THEN WrittenIffAbsentOrDifferent(
                {rec \in c : rec.reg_no # rows[i]["reg_no"]} \cup {StoredForm(rows[i])},
                n + 1, rows, i + 1)
         ELSE WrittenIffAbsentOrDifferent(c, n, rows, i + 1)

\* C21: after every upsert_rows call the cache holds the full record of each
\* batch record that was absent or had a different stored hash when its turn
\* came, the returned count is the number of those records, and every other
\* record is as it was.
C21_WrittenAndCountedIffAbsentOrDifferent ==
    \A i \in 1..Len(upsert_log) :
        LET e == upsert_log[i]
            want == WrittenIffAbsentOrDifferent(e.before, 0, e.rows, 1)
        IN /\ e.after = want.cache
           /\ e.ret = want.count

\* the step in which run r's upsert_rows call returns
UpsertReturnsIn(r) == run[r].pc = "upsert" /\ run'[r].pc = "save"

\* C22: when the upsert_rows call of a chunk returns, either it committed and
\* every record of the chunk is in the cache, the records of other keys being
\* as they were, or a statement or the commit failed and the cache is exactly
\* as it was before the call, the chunks committed earlier included.
C22_ChunkAllOrNothing ==
    [][\A r \in Tasks :
          UpsertReturnsIn(r) =>
              \/ /\ run'[r].committed
                 /\ AsCacheRecords(RowsOf(run[r].source_data)) \subseteq cache'
                 /\ \A rec \in cache :
                       (\A row \in RowsOf(run[r].source_data) : row.Reg_no # rec.reg_no)
                           => rec \in cache'
              \/ /\ ~run'[r].committed
                 /\ cache' = cache]_vars

\* the second chunk of a full sync failed after its first record, and the
\* first chunk is still in the cache
C22_LaterChunkFailed ==
    \E r \in Tasks :
        /\ run[r].kind = "full"
        /\ run[r].pc = "save"
        /\ ~run[r].committed
        /\ run[r].updated_count >= 1
        /\ run[r].total_rows_received > Len(run[r].source_data)
        /\ cache # {}
        /\ AsCacheRecords(RowsOf(run[r].source_data)) \cap cache = {}

\* a source row without the columns KEY_MAPPING does not name
WithoutUnmapped(row) == [k \in DOMAIN row \cap MappedColumns |-> row[k]]

\* C23: every row _process_and_hash_data returns has only canonical field
\* names and hash_value as keys, and its hash_value is the one of the row
\* without its unmapped columns.
C23_UnmappedColumnsDropped ==
    \A n \in 1..Len(hash_log) :
        \A i \in 1..Len(hash_log[n].arg) :
            /\ DOMAIN hash_log[n].ret[i] \subseteq CanonicalFields \cup {"hash_value"}
            /\ hash_log[n].ret[i]["hash_value"]
                  = ProcessRow(WithoutUnmapped(hash_log[n].arg[i]))["hash_value"]

\* C24: a put on a ledger file that does not parse succeeds and leaves a
\* ledger that holds the task, and a latest-status request on a ledger file
\* that does not parse is not answered with an internal error (500).
C24_CorruptLedgerNotPropagated ==
    /\ last_put # 0 => (tasks_log.kind = "ok" /\ HasTask(tasks_log.tasks, last_put))
    /\ (response # NoResponse /\ tasks_log.kind = "corrupt") => response.code # 500

\* the primary keys in a cache
CachedKeys(c) == {rec.reg_no : rec \in c}

\* C25: no step of any run, alone or overlapping with others, and no deletion
\* at the source takes a primary key out of the cache, and no key is ever in
\* the cache twice.
C25_CacheKeysOnlyGrow ==
    [][/\ CachedKeys(cache) \subseteq CachedKeys(cache')
       /\ \A a, b \in cache' : a.reg_no = b.reg_no => a = b]_vars

\* a full sync has finished over a source that lost a row the cache still holds
C25_RemovedRowStillCached ==
    /\ \E rec \in cache : \A row \in source : row.Reg_no # rec.reg_no
    /\ Cardinality(cache) >= 2
    /\ \E r \in Tasks : FullSyncFinished(r) /\ r = started /\ r >= 2

\* the ledger file shows the task as running
RunningInLedger(r) == TaskRecord(tasks_log, r).status = "running"

\* C26: every run that has written the status running eventually writes a
\* terminal status (success, complete or error) for its task id, also when a
\* step of the run raises an unexpected error, so that no task stays running
\* in the ledger after its run has stopped.
C26_RunningLeadsToTerminal ==
    \A r \in Tasks :
        RunningInLedger(r) ~> (TaskRecord(tasks_log, r).status \in TerminalStatuses)

\* the full sync r has left its loop on an empty chunk
LeftLoopOnEmptyChunk(r) ==
    /\ run[r].kind = "full"
    /\ run[r].ended = "empty"
    /\ run[r].pc \in {"export", "log_read", "log_write"}

\* C27: a full sync starts by resetting the persisted cursor to the sentinel,
\* whatever it was; no row it fetches has a key at or below the sentinel; and
\* when it has run alone to an empty chunk, every source row with a key above
\* the sentinel is in the cache with the hash of its current content.
C27_FullSyncStartsAtSentinel ==
    \A r \in Tasks :
        run[r].kind = "full" =>
            /\ BeforeFetch(r) => offset_file = RESET_REG_NO
            /\ \A row \in RowsOf(run[r].source_data) : row.Reg_no > RESET_REG_NO
            /\ (LeftLoopOnEmptyChunk(r) /\ started = r) =>
                    \A row \in RowsAfter(source, RESET_REG_NO) : Cached(row)

\* the step is a firing of the periodic job
Fires == last_op'.fired # last_op.fired

\* the refresh step of the firing failed: no refresh file, a file that
\* cannot be read, or a command that failed or raised
RefreshFailed(op) ==
    \/ op.refresh \in {"missing", "unreadable"}
    \/ op.outcome \notin {"skipped", "executed"}

\* C28: a firing whose refresh step failed starts no run and leaves the
\* ledger, the cursor, the cache and the export snapshot as they were; a
\* firing whose refresh step succeeded or whose refresh file is blank starts
\* exactly one full sync, under a task id no run had before.
C28_FiringSyncsOnlyAfterRefresh ==
    [][Fires =>
          /\ UNCHANGED <<tasks_log, offset_file, cache, export_file>>
          /\ IF RefreshFailed(last_op')
             THEN UNCHANGED <<run, started>>
             ELSE /\ started' = started + 1
                  /\ run[started'] = IdleRun
                  /\ run'[started'].kind = "full" /\ run'[started'].pc = "reset"
                  /\ \A r \in Tasks \ {started'} : run'[r] = run[r]]_vars

\* a full sync has run to its end over a source with rows, and the second
\* firing, which found no refresh file, has returned
C28_AbortedFiringAfterSync ==
    /\ last_op.op = "fire" /\ last_op.refresh = "missing" /\ last_op.fired = 2
    /\ started = 1 /\ FullSyncFinished(1)
    /\ cache # {}

====
